---- MODULE Spec2Model ----
(***************************************************************************)
(* A model of the attempt lifecycle of the ws-worker and of the runtime's  *)
(* expression runner:                                                      *)
(*   - the worker's start-up options (src/unnamed/part_005),               *)
(*   - the claim loop and joinAttemptChannel (tested by part_004),         *)
(*   - the per-attempt execution context (src/unnamed/part_006),           *)
(*   - the engine registries (src/packages/engine-multi/src/engine.ts),    *)
(*   - the runner's run() promise, timeout and operation chain             *)
(*     (src/unnamed/part_003, src/unnamed/part_002).                       *)
(***************************************************************************)
EXTENDS Integers, Sequences, FiniteSets, TLC

(***************************************************************************)
(* Bounds of the model.                                                    *)
(***************************************************************************)
\* attempts (tokens) the coordinator can hand out
MaxAttempts == 3
\* runner events delivered to one execution context under SpecExecute
MaxEvents == 4
\* runner events delivered, over all attempts, under Spec
WorkerEvents == 2
\* consecutive empty claim replies
MaxEmpty == 4
\* the worker's capacity option (args.capacity)
Capacity == 2
\* operations in a job handed to the runner
MaxOps == 2
\* jobs of a plan handed to the compiler
MaxJobs == 2

Attempts == 1..MaxAttempts

(***************************************************************************)
(* Values.  Ids are tagged pairs so that a job id, a run id (a UUID), a    *)
(* dataclip id and the JavaScript undefined are comparable and distinct.   *)
(***************************************************************************)
Undefined == <<"undefined", 0>>
UUID_Constant(n) == <<"uuid", 1>>
UUID(n) == <<"uuid", n>>
JobIds == {<<"job", 1>>}
States == {<<"state", 1>>, <<"state", 2>>}
AttemptId(a) == <<"attempt", a>>
DataclipIds == {<<"dc", 1>>}

\* plan.initialState: a state, or the id of a dataclip (a string)
InitialStates ==
  {[kind |-> "value", v |-> s] : s \in States}
    \cup {[kind |-> "string", v |-> d] : d \in DataclipIds}

\* the UTF-8 JSON text the coordinator serves for a dataclip id
Dataclip(id) == <<"json", id[2] + 1>>

\* stringify(event.state): the JSON text of a state
stringify(s) == <<"json", s[2]>>
\* JSON.parse(enc.decode(bytes)) of loadState
parseJSON_Undecoded(t) == t
parseJSON(t) == <<"state", t[2]>>

Min(x, y) == IF x <= y THEN x ELSE y

VARIABLES
  \* start-up options
  mock,         \* args.mock: the mock engine or engine-multi
  backoffOpt,   \* args.backoff, a string "min/max" as a sequence of characters
  runPublicKey, \* whether args.lightningPublicKey is given
  \* engine registries (engine.ts)
  states, contexts,
  \* claim loop
  loopPc, backoff, lastSleep, emptyCount, queue, demand, active,
  \* per attempt: joinAttemptChannel and execute()
  pc, join, joined, attempt, plan, st, chan, promise, pending, replies, threw,
  \* process-wide
  uuid,         \* number of crypto.randomUUID() calls made
  evLeft,       \* runner events still to be delivered
  acks,         \* replies received to pushes that have no receiver
  handlers,     \* workflow ids whose context has handlers from listen()
  ctxEmit,      \* the event an execution context emitted last
  engineEmit,   \* the event the engine's own emitter emitted last
  \* one call of the runtime's run()
  rJob,         \* incomingJobs: source text or an operation list
  rOpts,        \* opts: forceSandbox, immutableState, timeout
  rPc,          \* where the promise executor of run() is
  rIdx,         \* operations of the chain that have resolved
  rInflight,    \* an operation was invoked and has not settled
  rCur,         \* the state object the chain holds
  rArgs,        \* the state object each invoked operation was given
  heap,         \* the value of every state object
  rTimer,       \* the timeout: unset, armed, fired or cleared
  rDelay,       \* the delay the timeout was armed with
  rPromise,     \* the promise run() returns
  \* the plan compiler
  cPlan,        \* the plan object handed to the compiler
  cPc,          \* which compiler calls have been made
  cOut,         \* what the first call returned or threw
  cAgain        \* what the call on the first call's result returned or threw

optVars == <<mock, backoffOpt, runPublicKey>>
engineVars == <<states, contexts>>
loopVars == <<loopPc, backoff, lastSleep, emptyCount, queue, demand>>
ctxVars == <<pc, join, joined, attempt, plan, st, chan, promise, pending,
             replies, threw, uuid, evLeft, active>>
ackVars == <<acks>>
listenVars == <<handlers>>
eventVars == <<ctxEmit, engineEmit>>
workerVars ==
  <<optVars, engineVars, loopVars, ctxVars, ackVars, listenVars, eventVars>>
runVars == <<rJob, rOpts, rPc, rIdx, rInflight, rCur, rArgs, heap, rTimer,
             rDelay, rPromise>>
compileVars == <<cPlan, cPc, cOut, cAgain>>
vars == <<workerVars, runVars, compileVars>>

(***************************************************************************)
(* Channel messages.  Every push is recorded with the fields of its        *)
(* payload; a field the payload does not carry is Undefined.               *)
(***************************************************************************)
BlankMsg ==
  [event |-> "", run_id |-> Undefined, job_id |-> Undefined,
   output_dataclip_id |-> Undefined, output_dataclip |-> Undefined,
   final_dataclip_id |-> Undefined, attempt_id |-> Undefined,
   id |-> Undefined]

push_Front(a, m) == chan' = [chan EXCEPT ![a] = <<m>> \o @]
push_Shared(a, m) == chan' = [chan EXCEPT ![1] = Append(@, m)]
push(a, m) == chan' = [chan EXCEPT ![a] = Append(@, m)]

(***************************************************************************)
(* AttemptState, as execute() creates it: { plan } and nothing else, so    *)
(* dataclips is undefined until the first job-complete.                    *)
(***************************************************************************)
NoDataclips == [k \in {} |-> Undefined]

AttemptState_NoPlan(planId) ==
  [plan |-> Undefined, activeRun |-> Undefined, activeJob |-> Undefined,
   hasDataclips |-> FALSE, dataclips |-> NoDataclips,
   result |-> Undefined]
AttemptState(planId) ==
  [plan |-> planId, activeRun |-> Undefined, activeJob |-> Undefined,
   hasDataclips |-> FALSE, dataclips |-> NoDataclips,
   result |-> Undefined]

Pending == [status |-> "pending", value |-> Undefined]

NoJoin == [status |-> "none", response |-> Undefined]

\* the topic of the channel of attempt a, attempt:<id>
Topic(a) == <<"attempt:", a>>

\* the promise of joinAttemptChannel, not settled yet
NotJoined == [status |-> "pending", error |-> Undefined, channel |-> Undefined]

\* no attempt body received yet, no plan built yet
NoAttempt ==
  [id |-> Undefined, hasJobs |-> FALSE, jobs |-> << >>,
   initialState |-> [kind |-> "value", v |-> Undefined]]

NoPlan ==
  [id |-> Undefined, jobs |-> << >>,
   initialState |-> [kind |-> "value", v |-> Undefined]]

(***************************************************************************)
(* Engine (engine-multi).                                                  *)
(***************************************************************************)
\* createState(plan): a WorkflowState for the plan, queued
createState(id) == [id |-> id, status |-> "queued"]

\* registerWorkflow: states[state.id] = state
registerWorkflow(sts, id) ==
  [k \in DOMAIN sts \cup {id} |-> IF k = id THEN createState(id) ELSE sts[k]]

\* listen(workflowId, handlers): contexts[workflowId].on(...) throws a
\* TypeError when no context is registered under workflowId.  The mock
\* engine subscribes the handlers under any id.
listenThrows(id) == ~mock /\ id \notin contexts

\* engine.execute(plan): executeWrapper registers the workflow and its
\* context; the mock engine keeps no registry.
executeWrapper(id) ==
  IF mock
  THEN UNCHANGED engineVars
  ELSE /\ states' = registerWorkflow(states, id)
       /\ contexts' = contexts \cup {id}

(***************************************************************************)
(* execute(channel, engine, logger, plan): the promise executor.           *)
(***************************************************************************)
\* lines 55-108 up to the first suspension
execute(a) ==
  /\ pc[a] = "joined"
  /\ st' = [st EXCEPT ![a] = AttemptState(plan[a].id)]
  /\ IF listenThrows(AttemptId(a))
     THEN \* the async executor rejects; resolve is never called
          /\ pc' = [pc EXCEPT ![a] = "crashed"]
          /\ UNCHANGED <<chan, engineVars>>
     ELSE IF plan[a].initialState.kind = "string"
     THEN \* loadState: getWithReply(channel, GET_DATACLIP, { id })
          /\ pc' = [pc EXCEPT ![a] = "loadingState"]
          /\ push(a, [BlankMsg EXCEPT !.event = "GET_DATACLIP",
                                      !.id = plan[a].initialState.v])
          /\ UNCHANGED engineVars
     ELSE /\ pc' = [pc EXCEPT ![a] = "executing"]
          /\ executeWrapper(AttemptId(a))
          /\ UNCHANGED chan
  /\ UNCHANGED <<optVars, loopVars, join, joined, attempt, plan, promise,
                 pending, replies, threw, uuid, evLeft, active>>

\* loadState resumes: the reply is decoded and parsed, then engine.execute
loadState(a, bytes) ==
  /\ pc[a] = "loadingState"
  /\ plan' = [plan EXCEPT ![a].initialState =
                [kind |-> "value", v |-> parseJSON(bytes)]]
  /\ pc' = [pc EXCEPT ![a] = "executing"]
  /\ executeWrapper(AttemptId(a))
  /\ UNCHANGED <<optVars, loopVars, join, joined, attempt, st, chan, promise,
                 pending, replies, threw, uuid, evLeft, active>>

\* getWithReply fails with a protocol timeout: the executor rejects
loadStateTimeout(a) ==
  /\ pc[a] = "loadingState"
  /\ pc' = [pc EXCEPT ![a] = "crashed"]
  /\ UNCHANGED <<optVars, engineVars, loopVars, join, joined, attempt, plan,
                 st, chan, promise, pending, replies, threw, uuid, evLeft,
                 active>>

(***************************************************************************)
(* The handlers of the execution context.  The engine's emitter calls a    *)
(* handler synchronously, so an event and its handler are one step.        *)
(***************************************************************************)
\* the engine delivers an event to the listeners of attempt a
emits(a) == pc[a] = "executing" /\ evLeft > 0

handled ==
  /\ evLeft' = evLeft - 1
  /\ UNCHANGED <<optVars, engineVars, loopVars, pc, join, joined, attempt,
                 plan, active>>

onWorkflowStart(a) ==
  /\ emits(a)
  /\ push(a, [BlankMsg EXCEPT !.event = "ATTEMPT_START"])
  /\ handled
  /\ UNCHANGED <<st, promise, pending, replies, threw, uuid>>

\* the payload of RUN_START, read from the state after it was updated
RUN_START_PAYLOAD(state) ==
  [BlankMsg EXCEPT !.event = "RUN_START",
                   !.run_id = state.activeJob,
                   !.job_id = state.activeJob]

onJobStart(a, event) ==
  /\ emits(a)
  /\ uuid' = uuid + 1
  /\ st' = [st EXCEPT ![a].activeRun = UUID(uuid + 1), ![a].activeJob = event]
  /\ push(a, RUN_START_PAYLOAD(st'[a]))
  /\ handled
  /\ UNCHANGED <<promise, pending, replies, threw>>

RUN_COMPLETE_PAYLOAD(state, dataclipId, event) ==
  [BlankMsg EXCEPT !.event = "RUN_COMPLETE",
                   !.run_id = state.activeRun,
                   !.job_id = state.activeJob,
                   !.output_dataclip_id = dataclipId,
                   !.output_dataclip = stringify(event)]

onJobComplete(a, event) ==
  LET dataclipId == UUID(uuid + 1)
      old == IF st[a].hasDataclips THEN st[a].dataclips ELSE NoDataclips
  IN /\ emits(a)
     /\ uuid' = uuid + 1
     /\ push(a, RUN_COMPLETE_PAYLOAD(st[a], dataclipId, event))
     /\ st' = [st EXCEPT
                 ![a].hasDataclips = TRUE,
                 ![a].dataclips =
                    [k \in DOMAIN old \cup {dataclipId} |->
                       IF k = dataclipId THEN event ELSE old[k]],
                 ![a].result = dataclipId,
                 ![a].activeRun = Undefined,
                 ![a].activeJob = Undefined]
     /\ handled
     /\ UNCHANGED <<promise, pending, replies, threw>>

\* a handler that reads dataclips with optional chaining and never throws
workflowCompleteThrows_Never(state) == FALSE

\* state.dataclips[state.result] throws a TypeError while dataclips is
\* undefined: the handler then pushes nothing
workflowCompleteThrows(state) == ~state.hasDataclips

onWorkflowComplete(a) ==
  /\ emits(a)
  /\ IF workflowCompleteThrows(st[a])
     THEN /\ threw' = [threw EXCEPT ![a] = TRUE]
          /\ UNCHANGED <<chan, pending>>
     ELSE LET result == IF st[a].result \in DOMAIN st[a].dataclips
                        THEN st[a].dataclips[st[a].result]
                        ELSE Undefined
          IN /\ push(a, [BlankMsg EXCEPT !.event = "ATTEMPT_COMPLETE",
                                         !.final_dataclip_id = st[a].result])
             \* .receive('ok', () => onComplete(result))
             /\ pending' = [pending EXCEPT ![a] = Append(@, result)]
             /\ UNCHANGED threw
  /\ handled
  /\ UNCHANGED <<st, promise, replies, uuid>>

onJobLog(a) ==
  /\ emits(a)
  /\ push(a, [BlankMsg EXCEPT
                !.event = "ATTEMPT_LOG",
                !.attempt_id = st[a].plan,
                !.run_id = IF st[a].activeRun # Undefined
                           THEN st[a].activeRun ELSE Undefined])
  /\ handled
  /\ UNCHANGED <<st, promise, pending, replies, threw, uuid>>

(***************************************************************************)
(* The coordinator answers an ATTEMPT_COMPLETE push.  Only an 'ok'         *)
(* receiver is attached; it calls onComplete, the promise's resolve, and   *)
(* the worker then frees the attempt's slot.                               *)
(***************************************************************************)
\* what the reply with this status does to the completion promise
onAck_AnyReply(p, status, result) ==
  IF p.status = "pending" THEN [status |-> "resolved", value |-> result] ELSE p
onAck(p, status, result) ==
  IF status = "ok" /\ p.status = "pending"
  THEN [status |-> "resolved", value |-> result]
  ELSE p

ackReply(a, status) ==
  /\ pending[a] # << >>
  /\ promise' = [promise EXCEPT ![a] = onAck(@, status, Head(pending[a]))]
  /\ pending' = [pending EXCEPT ![a] = Tail(@)]
  /\ replies' = [replies EXCEPT ![a] = Append(@, status)]
  /\ active' = IF promise'[a].status = "resolved" THEN active \ {a} ELSE active
  /\ UNCHANGED <<optVars, engineVars, loopVars, pc, join, joined, attempt,
                 plan, st, chan, threw, uuid, evLeft>>

AckStatuses == {"ok", "error", "timeout"}

\* one step of an execution context
contextStep(a) ==
  \/ execute(a)
  \/ loadState(a, Dataclip(plan[a].initialState.v))
  \/ loadStateTimeout(a)
  \/ onWorkflowStart(a)
  \/ \E j \in JobIds : onJobStart(a, j)
  \/ \E s \in States : onJobComplete(a, s)
  \/ onJobLog(a)
  \/ onWorkflowComplete(a)
  \/ \E status \in AckStatuses : ackReply(a, status)

(***************************************************************************)
(* The coordinator answers one of the other pushes.  ATTEMPT_START,        *)
(* RUN_START, RUN_COMPLETE and ATTEMPT_LOG are pushed with no receiver, so *)
(* their replies run no code of the context.                               *)
(***************************************************************************)
\* the pushes of attempt a that have no receiver
Unreceived(a) ==
  {i \in DOMAIN chan[a] :
     chan[a][i].event \in {"ATTEMPT_START", "RUN_START", "RUN_COMPLETE",
                           "ATTEMPT_LOG"}}

otherAck(a) ==
  /\ acks[a] < Cardinality(Unreceived(a))
  /\ acks' = [acks EXCEPT ![a] = @ + 1]
  /\ UNCHANGED <<optVars, engineVars, loopVars, ctxVars, listenVars, eventVars,
                 runVars, compileVars>>


(***************************************************************************)
(* Start-up options (start.ts).                                            *)
(***************************************************************************)
NaN == -1

DigitValue(c) ==
  CASE c = "0" -> 0 [] c = "1" -> 1 [] c = "2" -> 2 [] c = "3" -> 3
    [] c = "4" -> 4 [] c = "5" -> 5 [] c = "6" -> 6 [] c = "7" -> 7
    [] c = "8" -> 8 [] c = "9" -> 9 [] OTHER -> NaN

\* String.prototype.split on a one-character separator
RECURSIVE split(_, _)
split(s, sep) ==
  IF \E i \in 1..Len(s) : s[i] = sep
  THEN LET i == CHOOSE k \in 1..Len(s) :
                  s[k] = sep /\ \A j \in 1..(k - 1) : s[j] # sep
       IN <<SubSeq(s, 1, i - 1)>> \o split(SubSeq(s, i + 1, Len(s)), sep)
  ELSE <<s>>

\* parseInt(n, 10) of a string of decimal digits: the leading digits, NaN
\* when there is none
RECURSIVE parseDigits(_, _)
parseDigits(s, acc) ==
  IF s = << >> \/ DigitValue(Head(s)) = NaN
  THEN acc
  ELSE parseDigits(Tail(s), acc * 10 + DigitValue(Head(s)))

parseInt(s) ==
  IF s = << >> \/ DigitValue(Head(s)) = NaN THEN NaN ELSE parseDigits(s, 0)

\* the option read as milliseconds, not multiplied
toMillis_Seconds(s) == parseInt(s)

\* parseInt(n, 10) * 1000
toMillis(s) == IF parseInt(s) = NaN THEN NaN ELSE parseInt(s) * 1000

\* const [minBackoff, maxBackoff] = args.backoff.split('/').map(...)
backoffParts(opt) ==
  LET parts == split(opt, "/") IN [i \in 1..Len(parts) |-> toMillis(parts[i])]

minBackoff == backoffParts(backoffOpt)[1]
maxBackoff == backoffParts(backoffOpt)[2]

\* a worker that admits one attempt more than its capacity
maxWorkflows_OffByOne == Capacity + 1

\* workerOptions.maxWorkflows: args.capacity
maxWorkflows == Capacity

(***************************************************************************)
(* The claim loop: one cooperative task.                                   *)
(***************************************************************************)
availableCapacity == maxWorkflows - Cardinality(active)

\* the tokens the coordinator has not handed out yet, lowest first
unclaimed == {a \in Attempts : pc[a] = "unclaimed"}

RECURSIVE inOrder(_)
inOrder(S) ==
  IF S = {} THEN << >>
  ELSE LET m == CHOOSE x \in S : \A y \in S : x <= y
       IN <<m>> \o inOrder(S \ {m})

\* where the loop goes once the token at the head of the queue is dealt with
nextToken ==
  /\ queue' = Tail(queue)
  /\ loopPc' = IF Tail(queue) = << >> THEN "idle" ELSE "tokens"

\* steps 1 and 2: wait for capacity, then push CLAIM { capacity: available }
claim ==
  /\ loopPc = "idle"
  /\ availableCapacity > 0
  /\ demand' = availableCapacity
  /\ loopPc' = "claiming"
  /\ UNCHANGED <<optVars, engineVars, backoff, lastSleep, emptyCount, queue,
                 ctxVars>>

\* the backoff after one more empty reply
nextBackoff(cur) == Min(cur * 2, maxBackoff)

\* step 4: the reply; the coordinator hands out at most the capacity asked
claimReply(n) ==
  /\ loopPc = "claiming"
  /\ n <= Min(demand, Cardinality(unclaimed))
  /\ IF n = 0
     THEN /\ emptyCount < MaxEmpty
          /\ lastSleep' = backoff
          /\ backoff' = nextBackoff(backoff)
          /\ emptyCount' = emptyCount + 1
          /\ loopPc' = "sleeping"
          /\ UNCHANGED <<queue, pc>>
     ELSE /\ backoff' = minBackoff
          /\ emptyCount' = 0
          /\ queue' = SubSeq(inOrder(unclaimed), 1, n)
          /\ pc' = [a \in Attempts |->
                      IF \E i \in 1..n : inOrder(unclaimed)[i] = a
                      THEN "claimed" ELSE pc[a]]
          /\ loopPc' = "tokens"
          /\ UNCHANGED lastSleep
  /\ demand' = 0
  /\ UNCHANGED <<optVars, engineVars, join, joined, attempt, plan, st, chan,
                 promise, pending, replies, threw, uuid, evLeft, active>>

\* the sleep is over
wake ==
  /\ loopPc = "sleeping"
  /\ loopPc' = "idle"
  /\ lastSleep' = 0
  /\ UNCHANGED <<optVars, engineVars, backoff, emptyCount, queue, demand,
                 ctxVars>>

(***************************************************************************)
(* joinAttemptChannel(socket, token, attemptId, logger).                   *)
(***************************************************************************)
\* the reason with which the coordinator rejects the join of attempt a
JoinErrors == {<<"invalid-token", 0>>, <<"unauthorized", 0>>}
JoinError(a) ==
  IF a % 2 = 1 THEN <<"invalid-token", 0>> ELSE <<"unauthorized", 0>>

\* step 3a and 3b: verify the token when a public key is configured, then
\* join attempt:<id> with { token }
startAttempt(a, sigOk) ==
  /\ loopPc = "tokens"
  /\ queue # << >> /\ Head(queue) = a
  /\ pc[a] = "claimed"
  /\ IF runPublicKey /\ ~sigOk
     THEN /\ pc' = [pc EXCEPT ![a] = "rejected"]
          /\ nextToken
          /\ UNCHANGED join
     ELSE /\ pc' = [pc EXCEPT ![a] = "joining"]
          /\ join' = [join EXCEPT ![a].status = "pending"]
          /\ loopPc' = "joining"
          /\ UNCHANGED queue
  /\ UNCHANGED <<optVars, engineVars, backoff, lastSleep, emptyCount, demand,
                 joined, attempt, plan, st, chan, promise, pending, replies,
                 threw, uuid, evLeft, active>>

\* a join that loads the attempt whatever the reply
afterJoin_Always(status) == "loading"

\* what joinAttemptChannel does on the reply to the join
afterJoin(status) == IF status = "ok" THEN "loading" ELSE "joinFailed"

\* a rejection that wraps the response in an error of its own
joinFailure_Wrapped(response) == <<"join-error", 0>>

\* .receive('error', (err) => reject(err)): the error joinAttemptChannel
\* fails with
joinFailure(response) == response

\* the reply to the join: on ok, loadAttempt pushes GET_ATTEMPT; on error
\* joinAttemptChannel rejects with the response and the claim is aborted
joinReply(a, status, response) ==
  /\ pc[a] = "joining"
  /\ join' = [join EXCEPT ![a] = [status |-> status, response |-> response]]
  /\ pc' = [pc EXCEPT ![a] = afterJoin(status)]
  /\ IF afterJoin(status) = "loading"
     THEN /\ push(a, [BlankMsg EXCEPT !.event = "GET_ATTEMPT"])
          /\ UNCHANGED <<queue, loopPc, joined>>
     ELSE /\ joined' = [joined EXCEPT ![a] =
                          [status |-> "rejected",
                           error |-> joinFailure(response),
                           channel |-> Undefined]]
          /\ nextToken
          /\ UNCHANGED chan
  /\ UNCHANGED <<optVars, engineVars, backoff, lastSleep, emptyCount, demand,
                 attempt, plan, st, promise, pending, replies, threw, uuid,
                 evLeft, active>>

\* the attempt body the coordinator serves for attempt a: the odd ones carry
\* a job list and an initial state, the even ones no job list and the id of
\* a dataclip
AttemptBody(a) ==
  [id |-> AttemptId(a),
   hasJobs |-> (a % 2 = 1),
   jobs |-> IF a % 2 = 1 THEN <<<<"job", 1>>>> ELSE << >>,
   initialState |-> IF a % 2 = 1
                    THEN [kind |-> "value", v |-> <<"state", 1>>]
                    ELSE [kind |-> "string", v |-> <<"dc", 1>>]]

\* convertAttempt: the execution plan of an attempt body; jobs defaults to []
convertAttempt(body) ==
  [id |-> body.id,
   jobs |-> IF body.hasJobs THEN body.jobs ELSE << >>,
   initialState |-> body.initialState]

\* step 3c and 3d: the reply to GET_ATTEMPT; joinAttemptChannel resolves
\* with { channel, plan } and the plan is handed to execute()
attemptReply(a, body) ==
  /\ pc[a] = "loading"
  /\ attempt' = [attempt EXCEPT ![a] = body]
  /\ plan' = [plan EXCEPT ![a] = convertAttempt(body)]
  /\ joined' = [joined EXCEPT ![a] =
                  [status |-> "resolved", error |-> Undefined,
                   channel |-> Topic(a)]]
  /\ pc' = [pc EXCEPT ![a] = "joined"]
  /\ active' = active \cup {a}
  /\ nextToken
  /\ UNCHANGED <<optVars, engineVars, backoff, lastSleep, emptyCount, demand,
                 join, st, chan, promise, pending, replies, threw, uuid,
                 evLeft>>

(***************************************************************************)
(* The runtime's run(incomingJobs, initialState, opts).                    *)
(***************************************************************************)
TIMEOUT == 300000
ERR_TIMEOUT == <<"timeout", 0>>
ERR_RUNTIME_EXCEPTION == <<"runtime exception", 0>>
ERR_JOBS_MUST_BE_STRINGS == <<"Invalid arguments: jobs must be strings", 0>>
\* what operation i throws or rejects with
UserError(i) == <<"user error", i>>

\* an operation: "double" returns a new state object with the value doubled,
\* "bump" adds one to the object it is given and returns that object; it
\* returns, throws, returns a promise that rejects, or never settles
Operations ==
  [fn : {"double", "bump"}, outcome : {"return", "throw", "reject", "hang"}]

RECURSIVE OperationLists(_)
OperationLists(n) ==
  IF n = 0 THEN {<< >>}
  ELSE LET shorter == OperationLists(n - 1)
       IN shorter \cup {Append(l, o) : l \in {x \in shorter : Len(x) = n - 1},
                                       o \in Operations}

PendingRun == [status |-> "pending", value |-> Undefined]

\* no run() call is made
NoRun ==
  /\ rJob = [kind |-> "ops", ops |-> << >>]
  /\ rOpts = [forceSandbox |-> FALSE, immutableState |-> FALSE, timeout |-> 0]
  /\ rPc = "none" /\ rIdx = 0 /\ rInflight = FALSE /\ rCur = 0
  /\ rArgs = << >> /\ heap = << >>
  /\ rTimer = "unset" /\ rDelay = 0
  /\ rPromise = PendingRun

\* a promise is settled once: resolve and reject of a settled promise do
\* nothing
resolve(p, v) ==
  IF p.status = "pending" THEN [status |-> "resolved", value |-> v] ELSE p
reject(p, e) ==
  IF p.status = "pending" THEN [status |-> "rejected", value |-> e] ELSE p

\* opts.timeout || TIMEOUT
timeoutOf(opts) == IF opts.timeout # 0 THEN opts.timeout ELSE TIMEOUT

\* prepareJob throws: a pre-compiled operation list under forceSandbox
prepareJobThrows(job, opts) == job.kind # "string" /\ opts.forceSandbox

\* clone(state): JSON.parse(JSON.stringify(state)), a new object of the
\* same value
clone_Shared(h, r) == h
clone(h, r) == Append(h, h[r])

\* the executor up to the call of the reducer: prepareJob, setTimeout.
\* When prepareJob throws the async executor rejects, and neither resolve
\* nor reject of the promise of run() is called.
runStart ==
  /\ rPc = "init"
  /\ IF prepareJobThrows(rJob, rOpts)
     THEN /\ rPc' = "aborted"
          /\ UNCHANGED <<rTimer, rDelay>>
     ELSE /\ rPc' = "running"
          /\ rTimer' = "armed"
          /\ rDelay' = timeoutOf(rOpts)
  /\ UNCHANGED <<rJob, rOpts, rIdx, rInflight, rCur, rArgs, heap, rPromise>>

\* defaultExecute: operations.reduce((acc, operation) => acc.then(operation),
\* start) chains the operations in list order, so the operation that runs
\* once idx of them have resolved is the next of the list
nextOperation_Reversed(ops, idx) == ops[Len(ops) - idx]
nextOperation(ops, idx) == ops[idx + 1]

\* wrapOperation: the next operation of the chain is invoked, on a clone of
\* the state when immutableState is set
invoke ==
  /\ rPc = "running" /\ ~rInflight /\ rIdx < Len(rJob.ops)
  /\ LET op == nextOperation(rJob.ops, rIdx)
         h == IF rOpts.immutableState THEN clone(heap, rCur) ELSE heap
         newState == IF rOpts.immutableState THEN Len(h) ELSE rCur
     IN /\ rArgs' = Append(rArgs, newState)
        /\ heap' = IF op.fn = "bump" /\ op.outcome \in {"return", "hang"}
                   THEN [h EXCEPT ![newState] = @ + 1]
                   ELSE h
  /\ rInflight' = TRUE
  /\ UNCHANGED <<rJob, rOpts, rPc, rIdx, rCur, rTimer, rDelay, rPromise>>

\* the error run() rejects with when the chain fails with e
runtimeError_Raw(e) == e
runtimeError(e) == ERR_RUNTIME_EXCEPTION

\* the invoked operation returns: its result is the state of the chain
opReturns ==
  /\ rPc = "running" /\ rInflight
  /\ nextOperation(rJob.ops, rIdx).outcome = "return"
  /\ LET op == nextOperation(rJob.ops, rIdx)
         arg == rArgs[Len(rArgs)]
     IN IF op.fn = "double"
        THEN /\ heap' = Append(heap, heap[arg] * 2)
             /\ rCur' = Len(heap) + 1
        ELSE /\ rCur' = arg
             /\ UNCHANGED heap
  /\ rIdx' = rIdx + 1
  /\ rInflight' = FALSE
  /\ UNCHANGED <<rJob, rOpts, rPc, rArgs, rTimer, rDelay, rPromise>>

\* the invoked operation throws or rejects: the chain rejects, the later
\* operations are skipped and the catch block rejects the promise of run()
opFails ==
  /\ rPc = "running" /\ rInflight
  /\ nextOperation(rJob.ops, rIdx).outcome \in {"throw", "reject"}
  /\ rPromise' = reject(rPromise, runtimeError(UserError(rIdx + 1)))
  /\ rPc' = "failed"
  /\ rInflight' = FALSE
  /\ UNCHANGED <<rJob, rOpts, rIdx, rCur, rArgs, heap, rTimer, rDelay>>

\* clearTimeout(tid): a timeout that has fired stays fired
clearTimeout_Forgotten(t) == t
clearTimeout(t) == IF t = "armed" THEN "cleared" ELSE t

\* every operation has resolved: clearTimeout(tid); resolve(result)
chainDone ==
  /\ rPc = "running" /\ ~rInflight /\ rIdx = Len(rJob.ops)
  /\ rTimer' = clearTimeout(rTimer)
  /\ rPromise' = resolve(rPromise, <<"ref", rCur>>)
  /\ rPc' = "done"
  /\ UNCHANGED <<rJob, rOpts, rIdx, rInflight, rCur, rArgs, heap, rDelay>>

\* the timeout fires: reject(Error(ERR_TIMEOUT)).  A timer runs only when
\* no microtask is left: while an operation's promise is outstanding, or
\* after the chain failed and left the timeout armed.
timeoutFires ==
  /\ rTimer = "armed"
  /\ \/ rPc = "failed"
     \/ /\ rPc = "running" /\ rInflight
        /\ nextOperation(rJob.ops, rIdx).outcome # "throw"
  /\ rTimer' = "fired"
  /\ rPromise' = reject(rPromise, ERR_TIMEOUT)
  /\ UNCHANGED <<rJob, rOpts, rPc, rIdx, rInflight, rCur, rArgs, heap, rDelay>>

runStep ==
  runStart \/ invoke \/ opReturns \/ opFails \/ chainDone \/ timeoutFires

(***************************************************************************)
(* The plan compiler (compile-plan.ts).                                    *)
(***************************************************************************)
\* job ids: one a user writes, one a user writes in the form the compiler
\* generates, and one that names no job
IdA == <<"a", 0>>
IdMissing == <<"z", 0>>
\* generateJobId: `job-${++autoJobId}`, given the incremented counter
generateJobId(n) == <<"job-", n>>
UserIds == {IdA, generateJobId(1)}

\* an edge of a next mapping: true, or the source text of a condition,
\* which compiles (1) or does not (0)
EdgeTrue == <<"boolean", 1>>
EdgeSources == {<<"string", 1>>, <<"string", 0>>}
EdgeTargets == {IdA, IdMissing}

\* next of a job: absent, a single successor id, or a mapping, kept as the
\* list of its entries in insertion order
NoNext == [kind |-> "none", to |-> Undefined, edges |-> << >>]
\* mappings of two entries, the first of which does not compile
TwoEdges ==
  {<<[to |-> IdA, edge |-> <<"string", 0>>], [to |-> IdMissing, edge |-> e]>> :
     e \in {EdgeTrue, <<"string", 0>>}}
\* a next object whose keys cannot be enumerated: `for (edgeId in edges)`
\* throws what the object's ownKeys trap throws, outside the try block
HostileNext == [kind |-> "throws", to |-> Undefined, edges |-> << >>]
Nexts ==
  {NoNext, HostileNext}
  \cup {[kind |-> "string", to |-> t, edges |-> << >>] : t \in EdgeTargets}
  \cup {[kind |-> "map", to |-> Undefined,
         edges |-> <<[to |-> t, edge |-> e]>>] :
          t \in EdgeTargets, e \in {EdgeTrue} \cup EdgeSources}
  \cup {[kind |-> "map", to |-> Undefined, edges |-> es] : es \in TwoEdges}

Expression == <<"expression", 0>>
JobSpecs ==
  [id : {Undefined} \cup UserIds, expression : {Expression}, next : Nexts]

RECURSIVE JobLists(_)
JobLists(n) ==
  IF n = 0 THEN {<< >>}
  ELSE LET shorter == JobLists(n - 1)
       IN shorter \cup {Append(l, j) : l \in {x \in shorter : Len(x) = n - 1},
                                       j \in JobSpecs}

NoJobs == [k \in {} |-> Undefined]

\* a plan object: jobs is an array (form "list") in an ExecutionPlan and an
\* object keyed by job id (form "map") in a CompiledExecutionPlan
InputPlan(start, jobs) ==
  [form |-> "list", start |-> start, list |-> jobs, jobs |-> NoJobs]
CompiledPlan(start, jobs) ==
  [form |-> "map", start |-> start, list |-> << >>, jobs |-> jobs]

\* what a call of the compiler returns or throws
NotCalled ==
  [status |-> "none", plan |-> CompiledPlan(Undefined, NoJobs),
   message |-> << >>]
Returned(p) == [status |-> "ok", plan |-> p, message |-> << >>]
Threw(kind, message) ==
  [status |-> kind, plan |-> CompiledPlan(Undefined, NoJobs),
   message |-> message]

\* the loop "ensure ids before we start": job.id = generateJobId() is
\* written into the job objects of the caller's plan
RECURSIVE ensureIds(_, _)
ensureIds(jobs, autoJobId) ==
  IF jobs = << >> THEN << >>
  ELSE IF Head(jobs).id = Undefined
  THEN <<[Head(jobs) EXCEPT !.id = generateJobId(autoJobId + 1)]>>
       \o ensureIds(Tail(jobs), autoJobId + 1)
  ELSE <<Head(jobs)>> \o ensureIds(Tail(jobs), autoJobId)

\* compileFunction(edge, context) throws on source that does not compile
compileFunctionThrows(edge) == edge = <<"string", 0>>
\* { condition: compileFunction(edge, context) }
compileFunction(edge) == <<"condition", edge[2]>>

\* `Failed to compile edge condition ${from}->${edgeId} (...)`
EdgeError(from, edgeId) == <<from, edgeId>>

\* compileEdges(from, edges, context): the entries of result, and errs
RECURSIVE compiledEntries(_)
compiledEntries(edges) ==
  IF edges = << >> THEN << >>
  ELSE LET e == Head(edges)
       IN (IF e.edge[1] = "boolean" THEN <<e>>
           ELSE IF compileFunctionThrows(e.edge) THEN << >>
           ELSE <<[e EXCEPT !.edge = compileFunction(e.edge)]>>)
          \o compiledEntries(Tail(edges))

RECURSIVE edgeErrors(_, _)
edgeErrors(from, edges) ==
  IF edges = << >> THEN << >>
  ELSE (IF Head(edges).edge[1] = "string"
           /\ compileFunctionThrows(Head(edges).edge)
        THEN <<EdgeError(from, Head(edges).to)>> ELSE << >>)
       \o edgeErrors(from, Tail(edges))

\* the object built from a list of entries: a later entry replaces an
\* earlier one of the same key
asMap(entries) ==
  [k \in {entries[i].to : i \in DOMAIN entries} |->
     LET last == CHOOSE i \in DOMAIN entries :
                   /\ entries[i].to = k
                   /\ \A j \in DOMAIN entries : entries[j].to = k => j <= i
     IN entries[last].edge]

\* threw is what the call throws: nothing, the array errs, or something
\* that is not an array
compileEdges(from, next) ==
  IF next.kind = "string"
  THEN [threw |-> "none", errs |-> << >>,
        result |-> asMap(<<[to |-> next.to, edge |-> EdgeTrue]>>)]
  ELSE IF next.kind = "throws"
  THEN [threw |-> "other", errs |-> << >>, result |-> NoJobs]
  ELSE [threw |-> IF edgeErrors(from, next.edges) # << >>
                  THEN "array" ELSE "none",
        errs |-> edgeErrors(from, next.edges),
        result |-> asMap(compiledEntries(next.edges))]

\* trapErrors(fn): an array thrown by fn is pushed onto errs, anything else
\* is thrown again
trapErrors_Rethrow(out) == [errs |-> << >>, panic |-> out.threw # "none"]
trapErrors(out) ==
  [errs |-> IF out.threw = "array" THEN out.errs ELSE << >>,
   panic |-> out.threw = "other"]

\* errs.map(({ message }) => message).join(sep)
BlankLine == <<"\n\n", 0>>
RECURSIVE joinMessages(_, _)
joinMessages(errs, sep) ==
  IF Len(errs) <= 1 THEN errs
  ELSE <<Head(errs), sep>> \o joinMessages(Tail(errs), sep)

\* findUpstream(plan, id): for a job whose next is a string that is id it
\* returns job.next, for a job whose next mapping has id it returns job.id
RECURSIVE findUpstream(_, _)
findUpstream(jobs, id) ==
  IF jobs = << >> THEN Undefined
  ELSE LET job == Head(jobs)
       IN IF job.next.kind = "string" /\ job.next.to = id THEN job.next.to
          ELSE IF job.next.kind = "map"
                  /\ \E i \in DOMAIN job.next.edges : job.next.edges[i].to = id
          THEN job.id
          ELSE findUpstream(Tail(jobs), id)

\* the loop over plan.jobs that fills newPlan; errs is what trapErrors
\* has collected, and panic is set when trapErrors threw out of the loop
RECURSIVE compileJobs(_, _, _)
compileJobs(all, i, acc) ==
  IF i > Len(all) \/ acc.panic THEN acc
  ELSE LET job == all[i]
           jobId == job.id
           edges == compileEdges(jobId, job.next)
           trapped == IF job.next.kind = "none"
                      THEN [errs |-> << >>, panic |-> FALSE]
                      ELSE trapErrors(edges)
           hasNext == job.next.kind # "none" /\ edges.threw = "none"
           newJob == [id |-> jobId,
                      expression |-> job.expression,
                      hasNext |-> hasNext,
                      next |-> IF hasNext THEN edges.result ELSE NoJobs,
                      previous |-> findUpstream(all, jobId)]
       IN compileJobs(all, i + 1,
            [start |-> IF acc.start = Undefined THEN jobId ELSE acc.start,
             jobs |-> [k \in DOMAIN acc.jobs \cup {jobId} |->
                         IF k = jobId THEN newJob ELSE acc.jobs[k]],
             errs |-> acc.errs \o trapped.errs,
             panic |-> trapped.panic])

\* the default export: `for (const job of plan.jobs)` throws a TypeError
\* when plan.jobs is not iterable, as the jobs object of a compiled plan
compile(p) ==
  IF p.form # "list" THEN Threw("TypeError", << >>)
  ELSE LET jobs == ensureIds(p.list, 0)
           acc == compileJobs(jobs, 1,
                    [start |-> p.start, jobs |-> NoJobs, errs |-> << >>,
                     panic |-> FALSE])
       IN IF acc.panic THEN Threw("fatal", << >>)
          ELSE IF acc.errs # << >>
          THEN Threw("compilation error", joinMessages(acc.errs, BlankLine))
          ELSE Returned(CompiledPlan(acc.start, acc.jobs))

\* no compiler call is made
NoCompile ==
  /\ cPlan = InputPlan(Undefined, << >>)
  /\ cPc = "none"
  /\ cOut = NotCalled /\ cAgain = NotCalled

\* the compiler is called on a plan; the ids it generates stay in the plan
compileCall ==
  /\ cPc = "init"
  /\ cOut' = compile(cPlan)
  /\ cPlan' = [cPlan EXCEPT !.list = ensureIds(@, 0)]
  /\ cPc' = "called"
  /\ UNCHANGED cAgain

\* the compiler is called on the plan it returned
compileAgain ==
  /\ cPc = "called" /\ cOut.status = "ok"
  /\ cAgain' = compile(cOut.plan)
  /\ cPc' = "recalled"
  /\ UNCHANGED <<cPlan, cOut>>

compileStep == compileCall \/ compileAgain

(***************************************************************************)
(* The engine's API used directly (engine.ts).  The registries states and  *)
(* contexts are local to createEngine: only registerWorkflow and           *)
(* executeWrapper write them, and nothing deletes from them.               *)
(***************************************************************************)
\* the statuses of a workflow that has completed, successfully or not
Completed == {"done", "failed"}

\* the names of the events of a workflow
WORKFLOW_START == "workflow-start"
WORKFLOW_COMPLETE == "workflow-complete"
WORKFLOW_LOG == "log"
JOB_START == "job-start"
JOB_COMPLETE == "job-complete"

\* an event as a listener receives it
Event(name, workflowId) == [event |-> name, workflowId |-> workflowId]
NoEvent == Event("none", Undefined)
\* engine.emit('test') at the end of createEngine
TestEvent == Event("test", Undefined)
\* no engine of engine-multi is created
NoEvents == ctxEmit = NoEvent /\ engineEmit = NoEvent

\* createWorkflowEvents: the events proxy(...) is called for
Proxied == {WORKFLOW_START, WORKFLOW_COMPLETE, WORKFLOW_LOG}

\* the methods of the object executeWrapper returns
HandleMethods == {"on", "once", "off"}

\* context.emit(name, evt): the listeners run synchronously, the proxy's
\* among them, which sets workflowId and calls engine.emit(name, newEvt)
contextEmit(id, name) ==
  /\ ctxEmit' = Event(name, id)
  /\ engineEmit' = IF name \in Proxied THEN Event(name, id) ELSE engineEmit

\* engine.execute(plan): a new state and a new context are stored under the
\* plan's id, replacing what was there
engineExecute(id) ==
  /\ ~mock
  /\ executeWrapper(id)
  /\ handlers' = handlers \ {id}
  /\ UNCHANGED eventVars

\* engine.listen(workflowId, handlers) on a registered context
engineListen(id) ==
  /\ ~listenThrows(id)
  /\ id \notin handlers
  /\ handlers' = handlers \cup {id}
  /\ UNCHANGED <<engineVars, eventVars>>

\* the workflow starts in its worker
workflowStart(id) ==
  /\ id \in DOMAIN states /\ states[id].status = "queued"
  /\ states' = [states EXCEPT ![id].status = "running"]
  /\ contextEmit(id, WORKFLOW_START)
  /\ UNCHANGED <<contexts, handlers>>

\* a job of the running workflow starts, completes or logs
workflowEvent(id, name) ==
  /\ id \in DOMAIN states /\ states[id].status = "running"
  /\ contextEmit(id, name)
  /\ UNCHANGED <<engineVars, handlers>>

\* the workflow completes: its state records it; the engine has no code
\* that removes the entries of states and contexts
workflowComplete(id, status) ==
  /\ id \in DOMAIN states /\ states[id].status = "running"
  /\ states' = [states EXCEPT ![id].status = status]
  /\ contextEmit(id, WORKFLOW_COMPLETE)
  /\ UNCHANGED <<contexts, handlers>>

engineStep ==
  \E a \in Attempts :
    \/ engineExecute(AttemptId(a))
    \/ engineListen(AttemptId(a))
    \/ workflowStart(AttemptId(a))
    \/ \E name \in {JOB_START, JOB_COMPLETE, WORKFLOW_LOG} :
         workflowEvent(AttemptId(a), name)
    \/ \E status \in Completed : workflowComplete(AttemptId(a), status)

(***************************************************************************)
(* SpecExecute: execute() called for one attempt whose channel is joined   *)
(* and whose plan is loaded, as its unit tests call it.                    *)
(***************************************************************************)
\* the command lines the worker is started with: mock, backoff, public key
StartOptions ==
  { <<TRUE, <<"1", "/", "1", "0">>, FALSE>>,
    <<FALSE, <<"2", "/", "5">>, TRUE>> }

InitExecute ==
  /\ mock \in BOOLEAN
  /\ backoffOpt = <<"1", "/", "1", "0">>
  /\ runPublicKey = FALSE
  /\ states = [k \in {} |-> Undefined]
  /\ contexts = {}
  /\ loopPc = "stopped"
  /\ backoff = 0 /\ lastSleep = 0 /\ emptyCount = 0
  /\ queue = << >> /\ demand = 0
  /\ active = {1}
  /\ pc = [a \in Attempts |-> IF a = 1 THEN "joined" ELSE "unclaimed"]
  /\ join = [a \in Attempts |->
               IF a = 1 THEN [status |-> "ok", response |-> Undefined]
               ELSE NoJoin]
  /\ joined = [a \in Attempts |->
                 IF a = 1
                 THEN [status |-> "resolved", error |-> Undefined,
                       channel |-> Topic(a)]
                 ELSE NotJoined]
  /\ attempt \in {[a \in Attempts |->
                     IF a = 1
                     THEN [id |-> AttemptId(a), hasJobs |-> TRUE,
                           jobs |-> <<<<"job", 1>>>>, initialState |-> i]
                     ELSE NoAttempt] :
                  i \in InitialStates}
  /\ plan = [a \in Attempts |->
               IF a = 1 THEN convertAttempt(attempt[a]) ELSE NoPlan]
  /\ st = [a \in Attempts |-> AttemptState(Undefined)]
  /\ chan = [a \in Attempts |-> << >>]
  /\ promise = [a \in Attempts |-> Pending]
  /\ pending = [a \in Attempts |-> << >>]
  /\ replies = [a \in Attempts |-> << >>]
  /\ threw = [a \in Attempts |-> FALSE]
  /\ uuid = 0
  /\ evLeft = MaxEvents
  /\ acks = [a \in Attempts |-> 0]
  /\ handlers = {}
  /\ NoEvents
  /\ NoRun
  /\ NoCompile

NextExecute ==
  /\ \E a \in Attempts : contextStep(a)
  /\ UNCHANGED <<runVars, compileVars, ackVars, listenVars, eventVars>>

SpecExecute == InitExecute /\ [][NextExecute]_vars

(***************************************************************************)
(* SpecAcked: SpecExecute together with the coordinator's replies to the   *)
(* pushes that have no receiver.                                           *)
(***************************************************************************)
NextAcked == NextExecute \/ \E a \in Attempts : otherAck(a)

SpecAcked == InitExecute /\ [][NextAcked]_vars

(***************************************************************************)
(* Spec: the worker from start-up, claiming attempts in a loop.            *)
(***************************************************************************)
Init ==
  /\ \E o \in StartOptions :
        mock = o[1] /\ backoffOpt = o[2] /\ runPublicKey = o[3]
  /\ states = [k \in {} |-> Undefined]
  /\ contexts = {}
  /\ loopPc = "idle"
  /\ backoff = minBackoff
  /\ lastSleep = 0 /\ emptyCount = 0
  /\ queue = << >> /\ demand = 0
  /\ active = {}
  /\ pc = [a \in Attempts |-> "unclaimed"]
  /\ join = [a \in Attempts |-> NoJoin]
  /\ joined = [a \in Attempts |-> NotJoined]
  /\ attempt = [a \in Attempts |-> NoAttempt]
  /\ plan = [a \in Attempts |-> NoPlan]
  /\ st = [a \in Attempts |-> AttemptState(Undefined)]
  /\ chan = [a \in Attempts |-> << >>]
  /\ promise = [a \in Attempts |-> Pending]
  /\ pending = [a \in Attempts |-> << >>]
  /\ replies = [a \in Attempts |-> << >>]
  /\ threw = [a \in Attempts |-> FALSE]
  /\ uuid = 0
  /\ evLeft = WorkerEvents
  /\ acks = [a \in Attempts |-> 0]
  /\ handlers = {}
  /\ NoEvents
  /\ NoRun
  /\ NoCompile

loopStep ==
  \/ claim
  \/ \E n \in 0..MaxAttempts : claimReply(n)
  \/ wake
  \/ \E a \in Attempts, sigOk \in BOOLEAN : startAttempt(a, sigOk)
  \/ \E a \in Attempts : joinReply(a, "ok", Undefined)
  \/ \E a \in Attempts : joinReply(a, "error", JoinError(a))
  \/ \E a \in Attempts : attemptReply(a, AttemptBody(a))

Next ==
  \/ /\ loopStep
     /\ UNCHANGED <<runVars, compileVars, ackVars, listenVars, eventVars>>
  \/ NextExecute

Spec == Init /\ [][Next]_vars

(***************************************************************************)
(* SpecRun: one call of run() on an operation list or on source text       *)
(* whose module exports that list, from an initial state of value 1.       *)
(***************************************************************************)
\* no attempt is claimed, nothing is registered in the engine
NoAttempts ==
  /\ states = [k \in {} |-> Undefined]
  /\ contexts = {}
  /\ loopPc = "stopped"
  /\ backoff = 0 /\ lastSleep = 0 /\ emptyCount = 0
  /\ queue = << >> /\ demand = 0
  /\ active = {}
  /\ pc = [a \in Attempts |-> "unclaimed"]
  /\ join = [a \in Attempts |-> NoJoin]
  /\ joined = [a \in Attempts |-> NotJoined]
  /\ attempt = [a \in Attempts |-> NoAttempt]
  /\ plan = [a \in Attempts |-> NoPlan]
  /\ st = [a \in Attempts |-> AttemptState(Undefined)]
  /\ chan = [a \in Attempts |-> << >>]
  /\ promise = [a \in Attempts |-> Pending]
  /\ pending = [a \in Attempts |-> << >>]
  /\ replies = [a \in Attempts |-> << >>]
  /\ threw = [a \in Attempts |-> FALSE]
  /\ uuid = 0
  /\ evLeft = 0
  /\ acks = [a \in Attempts |-> 0]
  /\ handlers = {}

\* the worker is not started
NoWorker ==
  /\ mock = TRUE /\ backoffOpt = <<"1", "/", "1", "0">> /\ runPublicKey = FALSE
  /\ NoAttempts
  /\ NoEvents

InitRun ==
  /\ NoWorker
  /\ rJob \in [kind : {"string", "ops"}, ops : OperationLists(MaxOps)]
  /\ rOpts \in [forceSandbox : BOOLEAN, immutableState : BOOLEAN,
                timeout : {0, 100}]
  /\ rPc = "init" /\ rIdx = 0 /\ rInflight = FALSE
  /\ rCur = 1 /\ heap = <<1>>
  /\ rArgs = << >>
  /\ rTimer = "unset" /\ rDelay = 0
  /\ rPromise = PendingRun
  /\ NoCompile

NextRun == runStep /\ UNCHANGED <<workerVars, compileVars>>

SpecRun == InitRun /\ [][NextRun]_vars

(***************************************************************************)
(* SpecCompile: the plan compiler called on a plan of at most MaxJobs      *)
(* jobs, then on the plan it returned.                                     *)
(***************************************************************************)
InitCompile ==
  /\ NoWorker
  /\ NoRun
  /\ cPlan \in {InputPlan(start, jobs) :
                  start \in {Undefined, IdA, IdMissing},
                  jobs \in JobLists(MaxJobs)}
  /\ cPc = "init"
  /\ cOut = NotCalled /\ cAgain = NotCalled

NextCompile == compileStep /\ UNCHANGED <<workerVars, runVars>>

SpecCompile == InitCompile /\ [][NextCompile]_vars

(***************************************************************************)
(* SpecEngine: workflows executed through the engine's own API.            *)
(***************************************************************************)
InitEngine ==
  /\ mock = FALSE /\ backoffOpt = <<"1", "/", "1", "0">>
  /\ runPublicKey = FALSE
  /\ NoAttempts
  /\ ctxEmit = NoEvent /\ engineEmit = TestEvent
  /\ NoRun
  /\ NoCompile

NextEngine ==
  /\ engineStep
  /\ UNCHANGED <<optVars, loopVars, ctxVars, ackVars, runVars, compileVars>>

SpecEngine == InitEngine /\ [][NextEngine]_vars

(***************************************************************************)
(* Properties of the execution context.                                    *)
(***************************************************************************)
\* the positions of the pushes of an event on a channel
At(c, ev) == {i \in 1..Len(c) : c[i].event = ev}

\* the number of runs open after the first i pushes of a channel
RECURSIVE OpenRuns(_, _)
OpenRuns(c, i) ==
  IF i = 0 THEN 0
  ELSE OpenRuns(c, i - 1)
         + (IF c[i].event = "RUN_START" THEN 1
            ELSE IF c[i].event = "RUN_COMPLETE" THEN -1 ELSE 0)

\* the pushes are those of a runner that starts a job only when none runs,
\* completes only a started job and completes the workflow once, at the
\* end, with no job running
Lifecycle(c) ==
  /\ \A i \in 1..Len(c) : OpenRuns(c, i) \in {0, 1}
  /\ \A k \in At(c, "ATTEMPT_COMPLETE") : k = Len(c) /\ OpenRuns(c, k) = 0

\* C1: on one attempt channel every RUN_START is followed by exactly one
\* RUN_COMPLETE carrying the run_id of that RUN_START, pushed before the
\* attempt's ATTEMPT_COMPLETE.  Stated for the runs of a runner that
\* brackets its jobs (Lifecycle), so that only the handlers decide it.
C1_RunStartHasItsRunComplete ==
  \A a \in Attempts :
    Lifecycle(chan[a]) =>
      \A i \in At(chan[a], "RUN_START") :
        /\ Cardinality({j \in At(chan[a], "RUN_COMPLETE") :
                          j > i /\ chan[a][j].run_id = chan[a][i].run_id}) <= 1
        /\ \A k \in At(chan[a], "ATTEMPT_COMPLETE") :
             k > i =>
               Cardinality({j \in At(chan[a], "RUN_COMPLETE") :
                              /\ i < j /\ j < k
                              /\ chan[a][j].run_id = chan[a][i].run_id}) = 1

\* the last RUN_COMPLETE pushed before position k, 0 when there is none
LastRunComplete(c, k) ==
  LET before == {j \in At(c, "RUN_COMPLETE") : j < k}
  IN IF before = {} THEN 0
     ELSE CHOOSE j \in before : \A m \in before : m <= j

\* C2: whenever ATTEMPT_COMPLETE is pushed, dataclips[result] is defined and
\* final_dataclip_id is the output_dataclip_id of the last RUN_COMPLETE
\* pushed on the attempt.
C2_FinalDataclipIsLastRunComplete ==
  \A a \in Attempts :
    \A k \in At(chan[a], "ATTEMPT_COMPLETE") :
      LET last == LastRunComplete(chan[a], k)
          final == chan[a][k].final_dataclip_id
      IN /\ last # 0
         /\ final = chan[a][last].output_dataclip_id
         /\ st[a].hasDataclips
         /\ final \in DOMAIN st[a].dataclips
         /\ st[a].dataclips[final] \in States

\* an ATTEMPT_COMPLETE pushed after two jobs completed, and one workflow
\* complete that came before any job completed
C2_Witness ==
  \E a \in Attempts :
    \E k \in At(chan[a], "ATTEMPT_COMPLETE") :
      /\ Cardinality({j \in At(chan[a], "RUN_COMPLETE") : j < k}) = 2
      /\ threw[a]

\* C4: every attempt handed to the execution context terminates, its
\* completion promise settled and its slot freed, also when the
\* ATTEMPT_COMPLETE push is answered with an error or a timeout.  Stated at
\* the moment the coordinator has answered every ATTEMPT_COMPLETE push of
\* the attempt: nothing is outstanding that could still settle the promise.
C4_AnsweredAttemptTerminates ==
  \A a \in Attempts :
    (replies[a] # << >> /\ pending[a] = << >>) =>
      (promise[a].status # "pending" /\ a \notin active)

(***************************************************************************)
(* Properties of the worker.                                               *)
(***************************************************************************)
\* the attempts whose plan was handed over and that have not completed
Running ==
  {a \in Attempts :
     joined[a].status = "resolved" /\ promise[a].status = "pending"}

\* C3: the attempts handed to the engine and not yet completed are at most
\* capacity, so that with more attempts claimed than capacity, one starts
\* only after an earlier one has completed.
C3_AtMostCapacityRunning ==
  /\ Cardinality(Running) <= Capacity
  /\ Cardinality({a \in Attempts : joined[a].status = "resolved"}) > Capacity
       => \E a \in Attempts : promise[a].status = "resolved"

\* more attempts than capacity have been handed over, capacity of them
\* are running
C3_Witness ==
  /\ Cardinality({a \in Attempts : joined[a].status = "resolved"}) > Capacity
  /\ Cardinality(Running) = Capacity

\* the decimal numeral of a number below 100
Numeral(n) ==
  LET digit(d) == <<"0", "1", "2", "3", "4", "5", "6", "7", "8", "9">>[d + 1]
  IN IF n < 10 THEN <<digit(n)>> ELSE <<digit(n \div 10), digit(n % 10)>>

\* the seconds the backoff option gives before (1) and after (2) its '/'
OptionSeconds(i) ==
  LET slash == CHOOSE k \in 1..Len(backoffOpt) : backoffOpt[k] = "/"
      part == IF i = 1 THEN SubSeq(backoffOpt, 1, slash - 1)
              ELSE SubSeq(backoffOpt, slash + 1, Len(backoffOpt))
  IN CHOOSE n \in 0..99 : Numeral(n) = part

RECURSIVE Pow2(_)
Pow2(k) == IF k = 0 THEN 1 ELSE 2 * Pow2(k - 1)

\* min(min * 2^k, max) in milliseconds, from the option
ExpectedSleep(k) ==
  Min(OptionSeconds(1) * 1000 * Pow2(k), OptionSeconds(2) * 1000)

\* C5: after k consecutive empty claim replies the next sleep is
\* min(min * 2^k, max); a non-empty reply resets the backoff to min; min and
\* max are the parts of the backoff option, times 1000.
C5_BackoffDoublesToMax ==
  /\ backoff = ExpectedSleep(emptyCount)
  /\ loopPc = "sleeping" => lastSleep = ExpectedSleep(emptyCount - 1)
  /\ loopPc = "tokens" => backoff = OptionSeconds(1) * 1000

\* the loop sleeps the maximum, min doubled would be more
C5_Witness ==
  /\ loopPc = "sleeping"
  /\ lastSleep = OptionSeconds(2) * 1000
  /\ OptionSeconds(1) * 1000 * Pow2(emptyCount - 1) > lastSleep

\* C6: when the join of attempt:<id> is rejected with a response r,
\* joinAttemptChannel fails with exactly r, no plan is handed to the engine,
\* nothing is pushed on the attempt's channel and the token is not retried.
C6_JoinErrorAborts ==
  /\ [](\A a \in Attempts :
          join[a].status = "error" =>
            /\ joined[a].status = "rejected"
            /\ joined[a].error = join[a].response
            /\ pc[a] = "joinFailed"
            /\ plan[a] = NoPlan
            /\ chan[a] = << >>
            /\ a \notin active
            /\ AttemptId(a) \notin contexts
            /\ \A i \in 1..Len(queue) : queue[i] # a)
  /\ [][\A a \in Attempts :
          join[a].status = "error" => join'[a] = join[a] /\ pc'[a] = pc[a]]_vars

\* a join was rejected, and the loop went on to join a later attempt
C6_Witness ==
  \E a, b \in Attempts :
    /\ join[a].status = "error"
    /\ joined[a].error = <<"unauthorized", 0>>
    /\ a < b /\ joined[b].status = "resolved"

\* C7: when the join is accepted, GET_ATTEMPT is pushed on the channel only
\* after the ok reply, and joinAttemptChannel returns the joined channel and
\* the plan built from the GET_ATTEMPT reply.
C7_PlanLoadedAfterJoin ==
  \A a \in Attempts :
    /\ At(chan[a], "GET_ATTEMPT") # {} => join[a].status = "ok"
    /\ join[a].status = "ok" =>
         chan[a] # << >> /\ chan[a][1].event = "GET_ATTEMPT"
    /\ joined[a].status = "resolved" =>
         /\ join[a].status = "ok"
         /\ joined[a].channel = Topic(a)
         /\ Cardinality(At(chan[a], "GET_ATTEMPT")) = 1
         /\ plan[a].id = attempt[a].id
         /\ plan[a].jobs =
              (IF attempt[a].hasJobs THEN attempt[a].jobs ELSE << >>)
         /\ pc[a] = "joined" => plan[a].initialState = attempt[a].initialState

\* a plan built from an attempt body that carries no job list
C7_Witness ==
  \E a \in Attempts :
    /\ joined[a].status = "resolved"
    /\ ~attempt[a].hasJobs
    /\ plan[a].jobs = << >>

(***************************************************************************)
(* Properties of run().                                                    *)
(***************************************************************************)
Rejected(e) == [status |-> "rejected", value |-> e]
Resolved(r) == [status |-> "resolved", value |-> <<"ref", r>>]

\* C8: one timeout covers the whole chain.  It is armed once, with
\* opts.timeout or the default, before the first operation; when it fires
\* while the chain is still running the promise of run() fails with
\* ERR_TIMEOUT, and no later step changes that; when the chain completes
\* with the timeout still armed the promise resolves with the final state
\* and the timeout is cleared.
C8_OneTimeoutOverTheChain ==
  /\ [](rArgs # << >> => rTimer # "unset" /\ rDelay = timeoutOf(rOpts))
  /\ [][rTimer # "unset" => rTimer' # "armed" \/ rTimer = "armed"]_vars
  /\ [][(rPc = "running" /\ rTimer = "armed" /\ rTimer' = "fired")
          => rPromise' = Rejected(ERR_TIMEOUT)]_vars
  /\ [][rPromise = Rejected(ERR_TIMEOUT) => rPromise' = rPromise]_vars
  /\ [][(rPc = "running" /\ rPc' = "done" /\ rTimer = "armed")
          => rPromise' = Resolved(rCur) /\ rTimer' = "cleared"]_vars
  /\ [](rTimer = "cleared" => rPc = "done" /\ rPromise = Resolved(rCur))

\* the timeout fired during the second operation, which returned later
C8_Witness ==
  /\ rPc = "done" /\ rIdx = MaxOps
  /\ rTimer = "fired"
  /\ rPromise = Rejected(ERR_TIMEOUT)

C10_ForceSandboxRejectsOperations ==
  (rJob.kind = "ops" /\ rOpts.forceSandbox /\ rPc \notin {"none", "init"}) =>
    /\ rPromise = Rejected(ERR_JOBS_MUST_BE_STRINGS)
    /\ rArgs = << >>

\* C11: with immutableState, the state object an operation is given is a
\* fresh clone: an object that did not exist before, so neither the state
\* passed into run() nor the result of the previous operation; invoking the
\* operation, which may mutate its argument, changes no object that existed
\* before, and the state passed into run() keeps its value throughout.
C11_ImmutableStateClones ==
  /\ [][(rOpts.immutableState /\ Len(rArgs') = Len(rArgs) + 1) =>
          LET newState == rArgs'[Len(rArgs')]
          IN /\ newState \notin DOMAIN heap
             /\ newState # 1 /\ newState # rCur
             /\ \A r \in DOMAIN heap : heap'[r] = heap[r]]_vars
  /\ [](rOpts.immutableState /\ rPc # "none" => heap[1] = 1)

\* every operation of a completed chain mutated the argument it was given
C11_Witness ==
  /\ rOpts.immutableState
  /\ rPc = "done" /\ Len(rJob.ops) = MaxOps
  /\ \A i \in 1..Len(rJob.ops) : rJob.ops[i].fn = "bump"
  /\ heap[1] = 1 /\ heap[rArgs[1]] = 2 /\ heap[rCur] = MaxOps + 1

(***************************************************************************)
(* Properties of the plan compiler.                                        *)
(***************************************************************************)
\* C12: the compiler called on a plan it has compiled succeeds and returns
\* a plan equal to its input.
C12_CompileIsIdempotent ==
  cPc = "recalled" => cAgain = Returned(cOut.plan)

\* C13: in every plan the compiler returns, start is a key of jobs and
\* every job id in a next of a job is a key of jobs.
C13_CompiledPlanIsClosed ==
  cOut.status = "ok" =>
    LET jobs == cOut.plan.jobs
    IN /\ cOut.plan.start \in DOMAIN jobs
       /\ \A id \in DOMAIN jobs : DOMAIN jobs[id].next \subseteq DOMAIN jobs

(***************************************************************************)
(* More properties of the execution context.                               *)
(***************************************************************************)
\* C14: job-start(jobId) generates a run id, stores it as activeRun, stores
\* jobId as activeJob and pushes RUN_START with that run id as run_id and
\* jobId as job_id: while RUN_START is the last push of an attempt, its
\* run_id is the activeRun and its job_id the activeJob of the state.
C14_RunStartCarriesNewRunId ==
  \A a \in Attempts :
    (chan[a] # << >> /\ chan[a][Len(chan[a])].event = "RUN_START") =>
      LET m == chan[a][Len(chan[a])]
      IN /\ st[a].activeRun # Undefined /\ st[a].activeJob \in JobIds
         /\ m.job_id = st[a].activeJob
         /\ m.run_id = st[a].activeRun

\* the k-th ATTEMPT_COMPLETE pushed on channel c
RECURSIVE AttemptComplete(_, _)
AttemptComplete(c, k) ==
  IF c[1].event = "ATTEMPT_COMPLETE"
  THEN IF k = 1 THEN c[1] ELSE AttemptComplete(Tail(c), k - 1)
  ELSE AttemptComplete(Tail(c), k)

\* C15: the completion promise of an attempt is resolved only by the ok
\* reply to an ATTEMPT_COMPLETE push, and then with the dataclip that push
\* names as final; that reply resolves it whatever replies to the other
\* pushes are outstanding, and a reply to another push leaves it as it is.
C15_OnlyAttemptCompleteAckResolves ==
  /\ [][\A a \in Attempts :
          (promise[a].status = "pending" /\ promise'[a].status # "pending") =>
            /\ replies'[a] = Append(replies[a], "ok")
            /\ promise'[a].status = "resolved"
            /\ LET m == AttemptComplete(chan[a], Len(replies'[a]))
               IN promise'[a].value = st[a].dataclips[m.final_dataclip_id]]_vars
  /\ [][\A a \in Attempts :
          (promise[a].status = "pending"
             /\ replies'[a] = Append(replies[a], "ok")) =>
            promise'[a].status = "resolved"]_vars
  /\ [][acks' # acks => promise' = promise /\ pending' = pending]_vars

\* resolved while one of the other pushes is answered and another is not
C15_Witness ==
  /\ promise[1].status = "resolved"
  /\ promise[1].value \in States
  /\ acks[1] = 1 /\ Cardinality(Unreceived(1)) > 1

(***************************************************************************)
(* Properties of the engine.                                               *)
(***************************************************************************)
\* C16: the registries hold a workflow id exactly during the attempt's
\* lifetime: an entry of states is created queued, every id with a context
\* has a state, and no workflow that has completed, successfully or not, is
\* still in states or contexts.
C16_RegistriesHoldLiveWorkflows ==
  /\ contexts \subseteq DOMAIN states
  /\ \A id \in DOMAIN states :
       /\ states[id].id = id
       /\ states[id].status \in {"queued", "running"}

(***************************************************************************)
(* Properties of attempts that run side by side.                           *)
(***************************************************************************)
\* the attempt state that the pushes c[i..] of one channel account for,
\* starting from state s; the run id of an open run is left out, as
\* RUN_START does not carry it
RECURSIVE Replay(_, _, _)
Replay(c, i, s) ==
  IF i > Len(c) THEN s
  ELSE LET m == c[i]
       IN Replay(c, i + 1,
            IF m.event = "RUN_START"
            THEN [s EXCEPT !.activeJob = m.job_id]
            ELSE IF m.event = "RUN_COMPLETE"
            THEN [s EXCEPT
                    !.activeJob = Undefined,
                    !.hasDataclips = TRUE,
                    !.result = m.output_dataclip_id,
                    !.dataclips =
                       [k \in DOMAIN s.dataclips \cup {m.output_dataclip_id}
                          |-> IF k = m.output_dataclip_id
                              THEN parseJSON(m.output_dataclip)
                              ELSE s.dataclips[k]]]
            ELSE s)

RECURSIVE InRun(_, _)
InRun(c, i) ==
  IF i = 0 THEN FALSE
  ELSE IF c[i].event = "RUN_START" THEN TRUE
  ELSE IF c[i].event = "RUN_COMPLETE" THEN FALSE
  ELSE InRun(c, i - 1)

\* C18: activeRun is defined exactly when activeJob is, and that is exactly
\* between a job-start and the next job-complete; job-complete generates a
\* fresh dataclip id, after which dataclips[id] is the event's state and
\* result is id.
C18_ActiveRunAndResult ==
  /\ [](\A a \in Attempts :
          /\ (st[a].activeRun # Undefined) <=> (st[a].activeJob # Undefined)
          /\ (st[a].activeRun # Undefined) <=> InRun(chan[a], Len(chan[a])))
  /\ [][\A a \in Attempts :
          (Len(chan'[a]) = Len(chan[a]) + 1
             /\ chan'[a][Len(chan'[a])].event = "RUN_COMPLETE") =>
            LET m == chan'[a][Len(chan'[a])]
                id == m.output_dataclip_id
            IN /\ id # Undefined /\ id # st[a].activeRun
               /\ id \notin DOMAIN st[a].dataclips
               /\ st'[a].hasDataclips /\ id \in DOMAIN st'[a].dataclips
               /\ stringify(st'[a].dataclips[id]) = m.output_dataclip
               /\ st'[a].result = id
               /\ \A k \in DOMAIN st[a].dataclips :
                    st'[a].dataclips[k] = st[a].dataclips[k]]_vars

\* a second job has started after the first completed
C18_Witness ==
  /\ st[1].activeRun # Undefined /\ st[1].activeJob \in JobIds
  /\ st[1].hasDataclips /\ st[1].result \in DOMAIN st[1].dataclips
  /\ st[1].result # st[1].activeRun

\* C19: every ATTEMPT_LOG pushed carries the plan id as attempt_id; it
\* carries the activeRun as run_id when the log event is handled between a
\* job-start and its job-complete, and no run_id otherwise.
C19_LogCarriesAttemptAndRun ==
  /\ [][\A a \in Attempts :
          (Len(chan'[a]) = Len(chan[a]) + 1
             /\ chan'[a][Len(chan'[a])].event = "ATTEMPT_LOG") =>
            LET m == chan'[a][Len(chan'[a])]
            IN /\ m.attempt_id = plan[a].id /\ m.attempt_id = AttemptId(a)
               /\ IF InRun(chan[a], Len(chan[a]))
                  THEN m.run_id = st[a].activeRun /\ m.run_id # Undefined
                  ELSE m.run_id = Undefined]_vars
  /\ [](\A a \in Attempts : \A i \in DOMAIN chan[a] :
          chan[a][i].event = "ATTEMPT_LOG" =>
            /\ chan[a][i].attempt_id = AttemptId(a)
            /\ (chan[a][i].run_id # Undefined) <=> InRun(chan[a], i - 1))

\* one log pushed inside a run and one pushed after it
C19_Witness ==
  \E i, j \in DOMAIN chan[1] :
    /\ i < j
    /\ chan[1][i].event = "ATTEMPT_LOG" /\ chan[1][i].run_id # Undefined
    /\ chan[1][j].event = "ATTEMPT_LOG" /\ chan[1][j].run_id = Undefined

\* C20: within one attempt the pushes are in the order of the runner events
\* that caused them: a handler pushes during the step of its event, at the
\* end of the channel (pushing nothing only when workflow-complete throws),
\* and a reply pushes nothing; and an event is handled whether or not
\* earlier pushes have been answered.
C20_PushesFollowEventOrder ==
  /\ [][\A a \in Attempts :
          \/ chan'[a] = chan[a]
          \/ /\ Len(chan'[a]) = Len(chan[a]) + 1
             /\ SubSeq(chan'[a], 1, Len(chan[a])) = chan[a]
             /\ \/ chan'[a][Len(chan'[a])].event = "GET_DATACLIP"
                \/ /\ evLeft' = evLeft - 1
                   /\ \A b \in Attempts \ {a} : chan'[b] = chan[b]]_vars
  /\ [][evLeft' # evLeft =>
          /\ evLeft' = evLeft - 1
          /\ replies' = replies /\ acks' = acks
          /\ \E a \in Attempts :
               \/ Len(chan'[a]) = Len(chan[a]) + 1
               \/ /\ chan' = chan /\ threw'[a]
                  /\ pc[a] = "executing" /\ workflowCompleteThrows(st[a])]_vars
  /\ [](\A a \in Attempts :
          (pc[a] = "executing" /\ evLeft > 0) =>
            /\ ENABLED onWorkflowStart(a)
            /\ ENABLED onJobLog(a)
            /\ ENABLED onWorkflowComplete(a)
            /\ \A j \in JobIds : ENABLED onJobStart(a, j)
            /\ \A s \in States : ENABLED onJobComplete(a, s))

\* a log is pushed while ATTEMPT_COMPLETE and every earlier push are
\* unanswered
C20_Witness ==
  /\ Len(chan[1]) >= 3 /\ acks[1] = 0 /\ replies[1] = << >>
  /\ chan[1][Len(chan[1])].event = "ATTEMPT_LOG"
  /\ chan[1][Len(chan[1]) - 1].event = "ATTEMPT_COMPLETE"
  /\ pending[1] # << >>

(***************************************************************************)
(* Properties of the initial state of an attempt.                          *)
(***************************************************************************)
\* the step in which execute() calls engine.execute(plan, resolvers)
EngineExecuteCalled(a) == pc[a] # "executing" /\ pc'[a] = "executing"

\* C21: when plan.initialState is a dataclip id, engine.execute is called
\* only in the step that receives the GET_DATACLIP reply, after that id was
\* asked for, and with initialState the value whose JSON text the reply is;
\* GET_DATACLIP is pushed only for a string initialState, so a plan with any
\* other initialState is executed with no GET_DATACLIP sent and unchanged.
C21_DataclipLoadedBeforeExecute ==
  [][\A a \in Attempts :
       /\ EngineExecuteCalled(a) =>
            IF plan[a].initialState.kind = "string"
            THEN /\ pc[a] = "loadingState"
                 /\ \E i \in At(chan[a], "GET_DATACLIP") :
                      chan[a][i].id = plan[a].initialState.v
                 /\ plan'[a].initialState.kind = "value"
                 /\ plan'[a].initialState.v \in States
                 /\ stringify(plan'[a].initialState.v)
                      = Dataclip(plan[a].initialState.v)
            ELSE /\ At(chan'[a], "GET_DATACLIP") = {}
                 /\ plan'[a] = plan[a]
       /\ At(chan'[a], "GET_DATACLIP") # At(chan[a], "GET_DATACLIP") =>
            /\ plan[a].initialState.kind = "string"
            /\ chan'[a][Len(chan'[a])].id = plan[a].initialState.v
            /\ pc[a] = "joined" /\ pc'[a] = "loadingState"]_vars

\* the engine runs a plan whose initialState came from a dataclip
C21_Witness ==
  /\ pc[1] = "executing"
  /\ attempt[1].initialState.kind = "string"
  /\ At(chan[1], "GET_DATACLIP") = {1}
  /\ plan[1].initialState = [kind |-> "value", v |-> <<"state", 2>>]

(***************************************************************************)
(* More properties of the plan compiler.                                   *)
(***************************************************************************)
\* the ids of the jobs of the input plan whose next references id, as a
\* single successor or as a key of an edge mapping
Referrers(jobs, id) ==
  {jobs[i].id : i \in {n \in DOMAIN jobs :
     \/ jobs[n].next.kind = "string" /\ jobs[n].next.to = id
     \/ /\ jobs[n].next.kind = "map"
        /\ \E e \in DOMAIN jobs[n].next.edges :
             jobs[n].next.edges[e].to = id}}

\* C22: in a compiled plan the previous of every job is the id of a job of
\* the input plan whose next references that job, and is absent when no
\* job references it.
C22_PreviousIsAReferrer ==
  cOut.status = "ok" =>
    \A k \in DOMAIN cOut.plan.jobs :
      IF Referrers(cPlan.list, k) = {}
      THEN cOut.plan.jobs[k].previous = Undefined
      ELSE cOut.plan.jobs[k].previous \in Referrers(cPlan.list, k)

\* the edges of the input plan whose condition does not compile, as pairs
\* <<index of the job, index of the entry in its next mapping>>
FailedEdges(jobs) ==
  {f \in (DOMAIN jobs) \X (1..2) :
     /\ jobs[f[1]].next.kind = "map"
     /\ f[2] \in DOMAIN jobs[f[1]].next.edges
     /\ jobs[f[1]].next.edges[f[2]].edge = <<"string", 0>>}

\* f comes no later than g in the order of the jobs and of their entries
NoLater(f, g) == f[1] < g[1] \/ (f[1] = g[1] /\ f[2] <= g[2])

\* C23: when no job's next throws something that is not a list of edge
\* errors, every failed edge of every job is reported: the compiler throws
\* one error whose message is the failed edges' messages, in the order of
\* the jobs and their edges, joined by blank lines, and returns no plan (and
\* returns a plan when no edge fails).  A throw that is not a list of edge
\* errors is what the compiler throws, with nothing accumulated.
C23_EdgeErrorsAreCollected ==
  cPc # "init" /\ cPc # "none" =>
    LET jobs == cPlan.list
        F == FailedEdges(jobs)
        n == Cardinality(F)
    IN IF \E i \in DOMAIN jobs : jobs[i].next.kind = "throws"
       THEN cOut.status = "fatal" /\ cOut.message = << >>
       ELSE IF F = {}
       THEN cOut.status = "ok"
       ELSE /\ cOut.status = "compilation error"
            /\ cOut.plan = CompiledPlan(Undefined, NoJobs)
            /\ Len(cOut.message) = 2 * n - 1
            /\ \A k \in 1..(n - 1) : cOut.message[2 * k] = BlankLine
            /\ \A f \in F :
                 cOut.message[2 * Cardinality({g \in F : NoLater(g, f)}) - 1]
                   = <<jobs[f[1]].id, jobs[f[1]].next.edges[f[2]].to>>

\* three edges of two jobs fail, and one error reports all of them
C23_Witness ==
  /\ cPc = "called" /\ cOut.status = "compilation error"
  /\ Len(cPlan.list) = 2
  /\ Cardinality(FailedEdges(cPlan.list)) = 3
  /\ Len(cOut.message) = 5
  /\ cOut.message[1][1] # cOut.message[5][1]

(***************************************************************************)
(* More properties of run().                                               *)
(***************************************************************************)
\* C24: the default reducer runs the operations in list order.  The k-th
\* invocation runs the k-th operation of the list, when the k-1 before it
\* have resolved and none is outstanding, on the state the chain holds (or
\* on a clone of that value under immutableState): the initial state for
\* the first, the previous operation's result for the others.  After an
\* operation throws or rejects no operation is invoked and the promise of
\* run() is rejected; an empty list resolves with the initial state.
C24_OperationsRunInListOrder ==
  /\ [][Len(rArgs') = Len(rArgs) + 1 =>
          LET op == rJob.ops[Len(rArgs) + 1]
              arg == rArgs'[Len(rArgs')]
              mutates == op.fn = "bump" /\ op.outcome \in {"return", "hang"}
          IN /\ rIdx = Len(rArgs) /\ ~rInflight
             /\ SubSeq(rArgs', 1, Len(rArgs)) = rArgs
             /\ IF rOpts.immutableState
                THEN arg \notin DOMAIN heap
                ELSE arg = rCur
             /\ heap'[arg] = heap[rCur] + (IF mutates THEN 1 ELSE 0)]_vars
  /\ [][rArgs' # rArgs => Len(rArgs') = Len(rArgs) + 1]_vars
  /\ [](rPc \in {"init", "running"} /\ rIdx = 0 => rCur = 1)
  /\ [][rIdx' # rIdx =>
          LET op == rJob.ops[rIdx + 1]
              arg == rArgs[Len(rArgs)]
          IN /\ rIdx' = rIdx + 1 /\ Len(rArgs) = rIdx + 1
             /\ op.outcome = "return"
             /\ IF op.fn = "double"
                THEN rCur' \notin DOMAIN heap /\ heap'[rCur'] = 2 * heap[arg]
                ELSE rCur' = arg /\ heap' = heap]_vars
  /\ [][rCur' # rCur => rIdx' = rIdx + 1]_vars
  /\ [][rPc = "failed" => rArgs' = rArgs /\ rIdx' = rIdx]_vars
  /\ [](rPc = "failed" =>
          /\ Len(rArgs) = rIdx + 1
          /\ rJob.ops[rIdx + 1].outcome \in {"throw", "reject"}
          /\ rPromise.status = "rejected")
  /\ [](rPc = "done" =>
          /\ rIdx = Len(rJob.ops) /\ Len(rArgs) = Len(rJob.ops)
          /\ rJob.ops = << >> => rPromise = Resolved(1) /\ heap = <<1>>)

\* double then bump gives 1 * 2 + 1; bump then double would give 4
C24_Witness ==
  /\ rPc = "done" /\ Len(rJob.ops) = 2
  /\ rJob.ops[1].fn = "double" /\ rJob.ops[2].fn = "bump"
  /\ rPromise = Resolved(rCur) /\ heap[rCur] = 3

(***************************************************************************)
(* Properties of the context's subscription to the engine.                 *)
(***************************************************************************)
\* C25: execute() attaches its handlers before the engine starts the plan:
\* the engine.listen(plan.id, handlers) call, made while plan.id has no
\* context in the engine, subscribes the handlers, so execute() goes on to
\* load the dataclip or to call engine.execute, and workflow-start and the
\* events after it reach their handlers.
C25_ListenBeforeExecuteSubscribes ==
  /\ [][\A a \in Attempts :
          (pc[a] = "joined" /\ pc'[a] # "joined") =>
            /\ AttemptId(a) \notin contexts
            /\ pc'[a] \in {"loadingState", "executing"}]_vars
  /\ [](\A a \in Attempts :
          (pc[a] = "executing" /\ evLeft > 0) => ENABLED onWorkflowStart(a))

(***************************************************************************)
(* Properties of the ids of a compiled plan.                               *)
(***************************************************************************)
\* no two jobs of the list carry the same id; jobs without an id are left
\* aside
DistinctIds(jobs) ==
  \A i, j \in DOMAIN jobs :
    (i # j /\ jobs[i].id # Undefined) => jobs[i].id # jobs[j].id

\* C26: when the ids the input jobs carry are pairwise distinct, then after
\* the compiler call every job has an id, the ids are pairwise distinct, and
\* a returned plan has exactly one entry per input job; this includes
\* inputs where some jobs carry an id of the form job-<n> and others none.
C26_CompiledIdsAreDistinct ==
  [][(cPc = "init" /\ cPc' = "called" /\ DistinctIds(cPlan.list)) =>
       /\ \A i \in DOMAIN cPlan'.list : cPlan'.list[i].id # Undefined
       /\ DistinctIds(cPlan'.list)
       /\ cOut'.status = "ok" =>
            /\ Cardinality(DOMAIN cOut'.plan.jobs) = Len(cPlan.list)
            /\ \A k \in DOMAIN cOut'.plan.jobs :
                 cOut'.plan.jobs[k].id = k]_vars

(***************************************************************************)
(* Properties of the promise and the timeout of run().                     *)
(***************************************************************************)
\* C27: the promise of run() is settled once, its status and value never
\* changing afterwards, and once it has settled, by completion, by a runtime
\* exception or by the timeout, the timeout of the run is not armed.
C27_SettledOnceAndTimerDisarmed ==
  /\ [][rPromise.status # "pending" => rPromise' = rPromise]_vars
  /\ [](rPromise.status # "pending" => rTimer # "armed")

(***************************************************************************)
(* Properties of the events of the engine.                                 *)
(***************************************************************************)
\* C28: every event a context emits is re-emitted on the engine's emitter
\* under the same name with workflowId the plan's id, so the event the
\* engine emitted last is the event a context emitted last; and the handle
\* execute returns has on, once and off and nothing that emits.
C28_ContextEventsReachTheEngine ==
  /\ ctxEmit # NoEvent =>
       engineEmit = Event(ctxEmit.event, ctxEmit.workflowId)
  /\ HandleMethods = {"on", "once", "off"}

=============================================================================
